---- MODULE Spec2Model ----
(***************************************************************************)
(* Verification model of unmixer: the track explorer's selection state     *)
(* machine and temp-mix-file cache (ui/main.py, ui/multitrack.py,          *)
(* ui/track.py), the option validation of                                  *)
(* create_isolated_tracks_from_audio_file (remix.py) and the command line  *)
(* entry point (__main__.py).                                              *)
(*                                                                         *)
(* File names are sequences of tokens ("bass", "+", ".", "wav", ...).  The *)
(* token set is prefix-free, so comparing token sequences                  *)
(* lexicographically by the ASCII order of the tokens is the string        *)
(* comparison Python's sorted() performs on the names.                     *)
(***************************************************************************)
EXTENDS Integers, Sequences, FiniteSets, TLC

VARIABLES
    tracks,                         \* MultiTrackDisplay.tracks: file names, sorted
    source_file_path,               \* UnmixerTrackExplorerWindow.source_file_path
    muted,                          \* TrackControls.muted, per track
    soloed,                         \* TrackControls.soloed, per track
    soloed_track,                   \* MultiTrackDisplay._soloed_track (0 = None)
    playing,                        \* PlaybackControls.playing
    play_enabled,                   \* play_button.isEnabled()
    export_enabled,                 \* export_button.isEnabled()
    file_path_for_selected_tracks,  \* MultiTrackDisplay.file_path_for_selected_tracks
    player,                         \* MultiTrackDisplay.player
    prev_position,                  \* MultiTrackDisplay.prev_position (-1 = None)
    stopping,                       \* number of replaced players whose singleShot stop is pending
    workers,                        \* QThread/UpdateMediaPlayerWorker pairs still alive
    nthreads,                       \* number of QThreads created so far
    temp_file_paths,                \* UnmixerTrackExplorerWindow._temp_file_paths
    content,                        \* temp dir: output path -> input paths mixed into it
    aborted,                        \* the process was terminated by qFatal()/abort()
    raised,                         \* what terminated it
    mixes_returned,                 \* history: selections temp_file_path returned a mix for
    last,                           \* history: what the last step called and observed
    resume_position,                \* history: position a paused playback is due to resume from (-1 = none)
    thread_budget,                  \* exploration limit on nthreads in this run
    args,                           \* inputs of the function under test (pure specs)
    result                          \* its outcome (pure specs)

xvars == <<tracks, source_file_path, muted, soloed, soloed_track, playing,
           play_enabled, export_enabled, file_path_for_selected_tracks, player,
           prev_position, stopping, workers, nthreads, temp_file_paths, content,
           aborted, raised, mixes_returned, last, resume_position, thread_budget>>
vars == <<xvars, args, result>>

----------------------------------------------------------------------------
(* Bounds *)

MaxThreads == 1      \* QThreads created per run
MaxStopping == 1     \* replaced players with a pending stop
MaxWorkers == 2      \* QThreads created per run where workers may overlap
MaxPos == 1          \* player positions 0..MaxPos

----------------------------------------------------------------------------
(* File names and os.path *)

Ord(t) ==
    CASE t = "+" -> 1 [] t = "." -> 2 [] t = "WAV" -> 3 [] t = "bass" -> 4
      [] t = "drums" -> 5 [] t = "flac" -> 6 [] t = "mix" -> 7 [] t = "mp3" -> 8
      [] t = "song" -> 9 [] t = "txt" -> 10 [] t = "vocals" -> 11 [] t = "wav" -> 12

Lower(t) == IF t = "WAV" THEN "wav" ELSE t

RECURSIVE NameLess(_, _)
NameLess(a, b) ==
    IF a = <<>> THEN b # <<>>
    ELSE IF b = <<>> THEN FALSE
    ELSE IF Head(a) = Head(b) THEN NameLess(Tail(a), Tail(b))
    ELSE Ord(Head(a)) < Ord(Head(b))

PathLess(p, q) == NameLess(p.name, q.name)

sorted(paths) == SortSeq(paths, PathLess)

\* os.path.splitext on a base name: split at the last dot, leading dots ignored.
splitext(name) ==
    LET dots == {i \in 1..Len(name) : name[i] = "." /\ \E j \in 1..(i-1) : name[j] # "."}
    IN  IF dots = {} THEN <<name, <<>>>>
        ELSE LET i == CHOOSE k \in dots : \A m \in dots : m <= k
             IN  <<SubSeq(name, 1, i-1), SubSeq(name, i, Len(name))>>

ISOLATED_TRACK_FORMATS == {"flac", "mp3", "wav"}

\* splitext(file_path)[1].lower().lstrip('.') in ISOLATED_TRACK_FORMATS
is_isolated_track(name) ==
    LET ext == splitext(name)[2]
    IN  Len(ext) = 2 /\ Lower(ext[2]) \in ISOLATED_TRACK_FORMATS

RECURSIVE JoinPlus(_)
JoinPlus(stems) ==
    IF stems = <<>> THEN <<>>
    ELSE IF Len(stems) = 1 THEN stems[1]
    ELSE stems[1] \o <<"+">> \o JoinPlus(Tail(stems))

NoPath == [dir |-> "none", name |-> <<>>]
InputPath(name) == [dir |-> "input", name |-> name]
TempPath(name) == [dir |-> "temp", name |-> name]

output_file_path(input_file_paths) ==
    LET s == sorted(input_file_paths)
        name == JoinPlus([i \in 1..Len(s) |-> splitext(s[i].name)[1]])
        extension == splitext(input_file_paths[1].name)[2]
    IN  TempPath(name \o extension)

----------------------------------------------------------------------------
(* The track explorer window *)

N == Len(tracks)
TrackPath(i) == InputPath(tracks[i])

NoPlayer == [exists |-> FALSE, source |-> NoPath, isPlaying |-> FALSE, position |-> 0]
\* What one step observed: the temp_file_path call it made or completed
\* (thread, sel, kind, path; called/returned in this step; known = it had
\* already returned a mix for sel; merged = the thread on which
\* merge_audio_files ran to completion; dup = a creation was started for an
\* output file that exists or is being written; requested = the selection
\* for which a worker thread was asked for) and, for an export, what
\* export_selected_tracks did.
NoLast == [thread |-> "none", sel |-> <<>>, kind |-> "none", path |-> NoPath,
           called |-> FALSE, known |-> FALSE, returned |-> FALSE, merged |-> "none",
           export |-> "none", dialog |-> FALSE, mixed |-> <<>>, dst |-> <<>>,
           dup |-> FALSE, requested |-> <<>>]

\* The window and display state as one record, so that a handler is the
\* composition of the methods it calls.
Display ==
    [muted |-> muted, soloed |-> soloed, soloed_track |-> soloed_track,
     playing |-> playing, play_enabled |-> play_enabled,
     export_enabled |-> export_enabled,
     file_path_for_selected_tracks |-> file_path_for_selected_tracks,
     player |-> player, prev_position |-> prev_position, stopping |-> stopping,
     workers |-> workers, nthreads |-> nthreads,
     temp_file_paths |-> temp_file_paths, content |-> content,
     aborted |-> aborted, raised |-> raised, mixes_returned |-> mixes_returned,
     last |-> NoLast, resume_position |-> resume_position]

Commit(d) ==
    /\ muted' = d.muted
    /\ soloed' = d.soloed
    /\ soloed_track' = d.soloed_track
    /\ playing' = d.playing
    /\ play_enabled' = d.play_enabled
    /\ export_enabled' = d.export_enabled
    /\ file_path_for_selected_tracks' = d.file_path_for_selected_tracks
    /\ player' = d.player
    /\ prev_position' = d.prev_position
    /\ stopping' = d.stopping
    /\ workers' = d.workers
    /\ nthreads' = d.nthreads
    /\ temp_file_paths' = d.temp_file_paths
    /\ content' = d.content
    /\ aborted' = d.aborted
    /\ raised' = d.raised
    /\ mixes_returned' = d.mixes_returned
    /\ last' = d.last
    /\ resume_position' = d.resume_position
    /\ UNCHANGED <<tracks, source_file_path, thread_budget, args, result>>

\* An unhandled Python exception in a slot, or the destruction of a running
\* QThread, ends in qFatal(): the process is gone, and its state with it.
Abort(d, why) ==
    [muted |-> [i \in 1..N |-> FALSE], soloed |-> [i \in 1..N |-> FALSE],
     soloed_track |-> 0, playing |-> FALSE, play_enabled |-> FALSE,
     export_enabled |-> FALSE, file_path_for_selected_tracks |-> NoPath,
     player |-> NoPlayer, prev_position |-> -1, stopping |-> 0, workers |-> <<>>,
     nthreads |-> 0, temp_file_paths |-> {}, content |-> <<>>,
     aborted |-> TRUE, raised |-> why, mixes_returned |-> {}, last |-> NoLast,
     resume_position |-> -1]

selected_tracks(d) ==
    IF d.soloed_track # 0 THEN <<d.soloed_track>>
    ELSE SelectSeq([i \in 1..N |-> i], LAMBDA i : ~d.muted[i])

PathsOf(sel) == [k \in 1..Len(sel) |-> TrackPath(sel[k])]

selected_track_paths(d) == PathsOf(selected_tracks(d))

\* has_temp_mix_file for a non-empty list (the empty list raises ValueError).
has_temp_mix_file(d, input_file_paths) ==
    \/ Len(input_file_paths) = 1
    \/ Len(input_file_paths) = N /\ source_file_path # NoPath
    \/ output_file_path(input_file_paths) \in d.temp_file_paths

TempFileKind_M(d, input_file_paths) ==
    IF input_file_paths = <<>> THEN "raise"
    ELSE IF Len(input_file_paths) = N /\ source_file_path # NoPath THEN "source"
    ELSE IF output_file_path(input_file_paths) \in d.temp_file_paths THEN "cached"
    ELSE "create"

\* Which return statement of temp_file_path is taken.
TempFileKind(d, input_file_paths) ==
    IF input_file_paths = <<>> THEN "raise"
    ELSE IF Len(input_file_paths) = 1 THEN "single"
    ELSE IF Len(input_file_paths) = N /\ source_file_path # NoPath THEN "source"
    ELSE IF output_file_path(input_file_paths) \in d.temp_file_paths THEN "cached"
    ELSE "create"

TempFileValue(kind, input_file_paths) ==
    CASE kind = "single" -> input_file_paths[1]
      [] kind = "source" -> source_file_path
      [] kind \in {"cached", "create"} -> output_file_path(input_file_paths)
      [] OTHER -> NoPath

\* output_path has been written by merge_audio_files, or a worker is inside
\* merge_audio_files writing it.
BeingCreated(d, output_path) ==
    \/ output_path \in DOMAIN d.content
    \/ \E w \in 1..Len(d.workers) :
          /\ d.workers[w].st = "mixing"
          /\ output_file_path(PathsOf(d.workers[w].sel)) = output_path

CacheAdd_M(cache, output_path) == cache

\* self._temp_file_paths.add(output_path)
CacheAdd(cache, output_path) == cache \cup {output_path}

\* merge_audio_files has written output_path from input_file_paths on `thread'.
create_temp_mix_file(d, input_file_paths, thread) ==
    LET output_path == output_file_path(input_file_paths)
    IN  [d EXCEPT !.content = (output_path :> input_file_paths) @@ @,
                  !.last.merged = thread]

\* temp_file_path run to completion on one thread; ok = merge_audio_files
\* succeeds.  The result is the state after the call; the value returned is
\* last.path.
temp_file_path(d, sel, thread, ok) ==
    LET paths == PathsOf(sel)
        kind == TempFileKind(d, paths)
        call == [d.last EXCEPT !.thread = thread, !.sel = sel, !.kind = kind,
                               !.path = TempFileValue(kind, paths),
                               !.called = TRUE, !.returned = TRUE,
                               !.known = (sel \in d.mixes_returned),
                               !.dup = (kind = "create"
                                        /\ BeingCreated(d, output_file_path(paths)))]
        d0 == [d EXCEPT !.last = call]
    IN  IF kind = "raise"
        THEN [d0 EXCEPT !.raised = "No input files provided!", !.last.returned = FALSE]
        ELSE IF kind = "create"
        THEN IF ok
             THEN LET c == create_temp_mix_file(d0, paths, thread)
                  IN  [c EXCEPT !.temp_file_paths = CacheAdd(@, call.path),
                                !.mixes_returned = @ \cup {sel}]
             ELSE [d0 EXCEPT !.raised = "ffmpeg failed", !.last.returned = FALSE]
        ELSE [d0 EXCEPT !.mixes_returned = IF kind = "cached" THEN @ \cup {sel} ELSE @]


pause_playback(d) ==
    IF d.player.exists /\ d.player.isPlaying
    THEN [d EXCEPT !.prev_position = d.player.position, !.player.isPlaying = FALSE,
                   !.resume_position = d.player.position]
    ELSE d

update_media_player_for_current_selected_tracks_sync(d) ==
    IF selected_tracks(d) = <<>> \/ ~d.playing \/ d.file_path_for_selected_tracks = NoPath
    THEN d
    ELSE LET source_url == d.file_path_for_selected_tracks
             replace == ~d.player.exists \/ d.player.source # source_url
             wasPlaying == d.player.exists /\ d.player.isPlaying
             d1 == IF replace
                   THEN [d EXCEPT !.player = [exists |-> TRUE, source |-> source_url,
                                              isPlaying |-> FALSE, position |-> 0],
                                  !.prev_position = IF wasPlaying THEN d.player.position ELSE @,
                                  !.stopping = IF wasPlaying THEN @ + 1 ELSE @]
                   ELSE d
         IN  IF ~d1.player.isPlaying
             THEN [d1 EXCEPT !.player.position = IF d1.prev_position # -1 THEN d1.prev_position ELSE @,
                             !.player.isPlaying = TRUE,
                             !.resume_position = -1]
             ELSE d1

\* The QThread that self._ffmpeg_thread refers to has not finished.
ThreadRunning(d) == \E w \in 1..Len(d.workers) : d.workers[w].id = d.nthreads

\* Lines 530-541: a new QThread and worker replace the references to the
\* previous pair.  When the previous QThread is still running, dropping its
\* last reference destroys it, which Qt treats as fatal; whether the wrapper
\* is collected at that point is left open (fatal).
StartThread(d, fatal) ==
    IF ThreadRunning(d) /\ fatal
    THEN [Abort(d, "QThread: Destroyed while thread is still running")
             EXCEPT !.last.requested = selected_tracks(d)]
    ELSE [d EXCEPT !.nthreads = @ + 1,
                   !.workers = Append(@, [id |-> d.nthreads + 1, st |-> "started", sel |-> <<>>]),
                   !.last.requested = selected_tracks(d)]

update_media_player_for_current_selected_tracks(d, fatal) ==
    LET sel == selected_tracks(d)
    IN  IF sel = <<>> THEN Abort(d, "No input files provided!")
        ELSE IF has_temp_mix_file(d, PathsOf(sel))
        THEN LET d1 == temp_file_path(d, sel, "ui", TRUE)
             IN  update_media_player_for_current_selected_tracks_sync(
                     [d1 EXCEPT !.file_path_for_selected_tracks = d1.last.path])
        ELSE StartThread(d, fatal)

play_selected_tracks(d, fatal) ==
    IF d.player.exists /\ d.player.isPlaying THEN d
    ELSE LET d1 == update_media_player_for_current_selected_tracks(d, fatal)
         IN  IF d1.aborted THEN d1 ELSE [d1 EXCEPT !.prev_position = -1]

toggle_playback(d, fatal) ==
    IF ~d.play_enabled THEN d
    ELSE LET d1 == [d EXCEPT !.playing = ~@]
         IN  IF d1.playing THEN play_selected_tracks(d1, fatal) ELSE pause_playback(d1)

toggle_muted_state(d, t) == [d EXCEPT !.muted[t] = ~@]

toggle_muted(d, t, fatal) ==
    IF d.soloed[t] THEN d
    ELSE LET d1 == toggle_muted_state(d, t)
             selected_count == Len(selected_tracks(d1))
             d2 == IF selected_count # 0
                   THEN [d1 EXCEPT !.play_enabled = TRUE,
                                   !.export_enabled = ~(selected_count = 1 \/ selected_count = N)]
                   ELSE LET d3 == [d1 EXCEPT !.export_enabled = FALSE, !.play_enabled = FALSE]
                        IN  IF d3.playing THEN pause_playback(d3) ELSE d3
         IN  update_media_player_for_current_selected_tracks(d2, fatal)

toggle_soloed_state(d, t) ==
    LET d1 == [d EXCEPT !.soloed[t] = ~@]
    IN  IF d1.soloed[t] /\ d1.muted[t] THEN toggle_muted_state(d1, t) ELSE d1

set_soloed_track_M(d, t) == [d EXCEPT !.soloed_track = t]

\* The soloed_track setter; t = 0 is None.
set_soloed_track(d, t) ==
    LET d1 == IF t # 0 /\ d.soloed_track # 0 /\ d.soloed_track # t
              THEN toggle_soloed_state(d, d.soloed_track)
              ELSE d
    IN  [d1 EXCEPT !.soloed_track = t]

toggle_soloed_M(d, t, fatal) ==
    LET d1 == toggle_soloed_state(d, t)
        d2 == set_soloed_track(d1, IF d1.soloed[t] THEN t ELSE 0)
        count == Len(selected_tracks(d2))
        d3 == IF d2.soloed[t]
              THEN [d2 EXCEPT !.play_enabled = TRUE, !.export_enabled = FALSE]
              ELSE IF 1 < count
              THEN [d2 EXCEPT !.export_enabled = TRUE]
              ELSE d2
    IN  update_media_player_for_current_selected_tracks(d3, fatal)

toggle_soloed(d, t, fatal) ==
    LET d1 == toggle_soloed_state(d, t)
        d2 == set_soloed_track(d1, IF d1.soloed[t] THEN t ELSE 0)
        count == Len(selected_tracks(d2))
        d3 == IF d2.soloed[t]
              THEN [d2 EXCEPT !.play_enabled = TRUE, !.export_enabled = FALSE]
              ELSE IF 1 < count /\ count < N
              THEN [d2 EXCEPT !.export_enabled = TRUE]
              ELSE d2
    IN  update_media_player_for_current_selected_tracks(d3, fatal)

EndsWith(name, suffix) ==
    /\ Len(suffix) <= Len(name)
    /\ SubSeq(name, Len(name) - Len(suffix) + 1, Len(name)) = suffix

\* What the user does in the QFileDialog: cancel it, accept the default
\* path, or type a name.
ExportNames == {<<"mix">>, <<"mix", ".", "mp3">>}
DialogChoices ==
    {[kind |-> "cancel", name |-> <<>>], [kind |-> "default", name |-> <<>>]}
        \cup {[kind |-> "typed", name |-> n] : n \in ExportNames}

export_selected_tracks(d, choice, ok) ==
    LET sel == selected_tracks(d)
    IN  IF Len(sel) < 2 \/ Len(sel) = N
        THEN [d EXCEPT !.last.export = "nothing", !.last.sel = sel]
        ELSE LET kind == TempFileKind(d, PathsOf(sel))
                 d1 == temp_file_path(d, sel, "ui", ok)
                 temp == d1.last.path
                 extension == splitext(temp.name)[2]
                 names == SortSeq([k \in 1..Len(sel) |-> splitext(tracks[sel[k]])[1]], NameLess)
                 export_name == JoinPlus(names) \o extension
                 chosen == IF choice.kind = "default" THEN export_name ELSE choice.name
                 export_path == IF EndsWith(chosen, extension) THEN chosen
                                ELSE splitext(chosen)[1] \o extension
             IN  IF kind = "create" /\ ~ok THEN Abort(d1, "ffmpeg failed")
                 ELSE IF choice.kind = "cancel"
                 THEN [d1 EXCEPT !.last.export = "cancelled", !.last.dialog = TRUE]
                 ELSE [d1 EXCEPT !.last.export = "copied", !.last.dialog = TRUE,
                                 !.last.mixed = d1.content[temp],
                                 !.last.dst = export_path]

\* PlaybackControls.restart_track
restart_track(d) ==
    IF ~d.player.exists THEN d
    ELSE IF d.player.isPlaying THEN [d EXCEPT !.player.position = 0]
    ELSE [d EXCEPT !.prev_position = 0, !.resume_position = 0]

\* MultiTrackPlayhead.mouseMoveEvent while dragging, to `position'
mouseMoveEvent(d, position) ==
    IF ~d.player.exists THEN d
    ELSE IF d.player.isPlaying THEN [d EXCEPT !.player.position = position]
    ELSE [d EXCEPT !.prev_position = position, !.resume_position = position]

----------------------------------------------------------------------------
(* Actions of the track explorer *)

Alive == ~aborted

Bounded(d) == d.nthreads <= thread_budget /\ d.stopping <= MaxStopping

Do(d) == Bounded(d) /\ Commit(d)

\* The outcomes of replacing self._ffmpeg_thread that are open in a state.
Fatal == IF ThreadRunning(Display) THEN BOOLEAN ELSE {FALSE}

ToggleMuted ==
    /\ Alive
    /\ \E t \in 1..N, fatal \in Fatal : Do(toggle_muted(Display, t, fatal))

ToggleSoloed ==
    /\ Alive
    /\ \E t \in 1..N, fatal \in Fatal : Do(toggle_soloed(Display, t, fatal))

TogglePlayback ==
    /\ Alive
    /\ \E fatal \in Fatal : Do(toggle_playback(Display, fatal))

ExportSelectedTracks ==
    /\ Alive
    /\ \E choice \in DialogChoices :
          \E ok \in (IF TempFileKind(Display, selected_track_paths(Display)) = "create"
                      THEN BOOLEAN ELSE {TRUE}) :
              Do(export_selected_tracks(Display, choice, ok))

\* UpdateMediaPlayerWorker.run on its thread, up to the point where
\* temp_file_path either returns or enters merge_audio_files.
WorkerRun ==
    /\ Alive
    /\ \E w \in 1..Len(workers) :
        /\ workers[w].st = "started"
        /\ LET d == Display
               sel == selected_tracks(d)
               kind == TempFileKind(d, PathsOf(sel))
           IN  IF kind = "raise"
               THEN Do([d EXCEPT !.workers[w].st = "failed"])
               ELSE IF kind = "create"
               THEN Do([d EXCEPT !.workers[w].st = "mixing", !.workers[w].sel = sel,
                                 !.last = [@ EXCEPT !.thread = "worker", !.sel = sel,
                                                    !.kind = kind, !.called = TRUE,
                                                    !.known = (sel \in d.mixes_returned),
                                                    !.dup = BeingCreated(d, output_file_path(PathsOf(sel)))]])
               ELSE LET d1 == temp_file_path(d, sel, "worker", TRUE)
                    IN  Do([d1 EXCEPT !.file_path_for_selected_tracks = d1.last.path,
                                      !.workers[w].st = "finished"])

\* merge_audio_files returns in the worker: the path is cached and becomes
\* file_path_for_selected_tracks, and finished is emitted.
WorkerMixDone ==
    /\ Alive
    /\ \E w \in 1..Len(workers) :
        /\ workers[w].st = "mixing"
        /\ LET d == Display
               sel == workers[w].sel
               paths == PathsOf(sel)
               output_path == output_file_path(paths)
               c == create_temp_mix_file(d, paths, "worker")
           IN  Do([c EXCEPT !.temp_file_paths = CacheAdd(@, output_path),
                            !.mixes_returned = @ \cup {sel},
                            !.last = [@ EXCEPT !.thread = "worker", !.sel = sel,
                                               !.kind = "create", !.path = output_path,
                                               !.returned = TRUE],
                            !.file_path_for_selected_tracks = output_path,
                            !.workers[w].st = "finished"])

\* merge_audio_files raises in the worker: exception is emitted instead.
WorkerMixFail ==
    /\ Alive
    /\ \E w \in 1..Len(workers) :
        /\ workers[w].st = "mixing"
        /\ Do([Display EXCEPT !.workers[w].st = "failed"])

RemoveAt(s, i) == SubSeq(s, 1, i - 1) \o SubSeq(s, i + 1, Len(s))

\* worker.finished -> thread.quit -> thread.finished ->
\* update_media_player_for_current_selected_tracks_sync on the UI thread.
ThreadFinished ==
    /\ Alive
    /\ \E w \in 1..Len(workers) :
        /\ workers[w].st = "finished"
        /\ Do(update_media_player_for_current_selected_tracks_sync(
                  [Display EXCEPT !.workers = RemoveAt(@, w)]))

\* worker.exception -> handle_ffmpeg_thread_exception on the UI thread; the
\* thread is not told to quit.
HandleFfmpegThreadException ==
    /\ Alive
    /\ \E w \in 1..Len(workers) :
        /\ workers[w].st = "failed"
        /\ Do([Display EXCEPT !.workers[w].st = "reported"])

\* QTimer.singleShot(0, self.player.stop) fires for a replaced player.
OldPlayerStop ==
    /\ Alive
    /\ stopping > 0
    /\ Do([Display EXCEPT !.stopping = @ - 1])

\* The track files of the directory the window is opened on, sorted.
PlainDir == <<<<"bass", ".", "wav">>, <<"drums", ".", "wav">>, <<"vocals", ".", "wav">>>>
SourceFile == [dir |-> "source", name |-> <<"song", ".", "mp3">>]

Unused == [fn |-> "none"]

\* UnmixerTrackExplorerWindow.__init__ and MultiTrackDisplay.__init__
WindowInit(file_paths, source) ==
    /\ tracks = file_paths
    /\ source_file_path = source
    /\ muted = [i \in 1..Len(tracks) |-> FALSE]
    /\ soloed = [i \in 1..Len(tracks) |-> FALSE]
    /\ soloed_track = 0
    /\ playing = FALSE
    /\ play_enabled = TRUE
    /\ export_enabled = FALSE
    /\ file_path_for_selected_tracks = NoPath
    /\ player = NoPlayer
    /\ prev_position = -1
    /\ stopping = 0
    /\ workers = <<>>
    /\ nthreads = 0
    /\ temp_file_paths = {}
    /\ content = <<>>
    /\ aborted = FALSE
    /\ raised = "none"
    /\ mixes_returned = {}
    /\ last = NoLast
    /\ resume_position = -1

Init ==
    /\ \E source \in {NoPath, SourceFile} : WindowInit(PlainDir, source)
    /\ thread_budget = MaxThreads
    /\ args = Unused
    /\ result = Unused

Next ==
    \/ ToggleMuted
    \/ ToggleSoloed
    \/ TogglePlayback
    \/ ExportSelectedTracks
    \/ WorkerRun
    \/ WorkerMixDone
    \/ WorkerMixFail
    \/ ThreadFinished
    \/ HandleFfmpegThreadException
    \/ OldPlayerStop

Spec == Init /\ [][Next]_vars

\* The playing QMediaPlayer advances.
PlayerTick ==
    /\ Alive
    /\ player.exists /\ player.isPlaying
    /\ player.position < MaxPos
    /\ Do([Display EXCEPT !.player.position = @ + 1])

RestartTrack ==
    /\ Alive
    /\ player.exists
    /\ Do(restart_track(Display))

DragPlayhead ==
    /\ Alive
    /\ player.exists
    /\ \E position \in 0..MaxPos : Do(mouseMoveEvent(Display, position))

\* Playback with overlapping workers: a window opened with its source file.
PlaybackInit ==
    /\ WindowInit(PlainDir, SourceFile)
    /\ thread_budget = MaxWorkers
    /\ args = Unused
    /\ result = Unused

PlaybackNext ==
    \/ ToggleMuted
    \/ TogglePlayback
    \/ PlayerTick
    \/ RestartTrack
    \/ DragPlayhead
    \/ WorkerRun
    \/ WorkerMixDone
    \/ WorkerMixFail
    \/ ThreadFinished
    \/ HandleFfmpegThreadException
    \/ OldPlayerStop

SpecPlayback == PlaybackInit /\ [][PlaybackNext]_vars

\* A directory with tracks of mixed extensions.
MixedDir == <<<<"bass", ".", "mp3">>, <<"drums", ".", "mp3">>, <<"drums", ".", "wav">>>>

MixedDirInit ==
    /\ \E source \in {NoPath, SourceFile} : WindowInit(MixedDir, source)
    /\ thread_budget = MaxThreads
    /\ args = Unused
    /\ result = Unused

SpecMixedDir == MixedDirInit /\ [][Next]_vars


----------------------------------------------------------------------------
(* output_file_path on arbitrary lists of track paths *)

RECURSIVE Perms(_)
Perms(S) ==
    IF S = {} THEN {<<>>}
    ELSE UNION {{<<x>> \o p : p \in Perms(S \ {x})} : x \in S}

PathPool == {<<"bass", ".", "wav">>, <<"drums", ".", "wav">>,
             <<"drums", ".", "mp3">>, <<"bass", "+", "drums", ".", "wav">>}

PathLists ==
    UNION {Perms({InputPath(n) : n \in S}) : S \in (SUBSET PathPool) \ {{}}}

PathInit ==
    /\ WindowInit(PlainDir, NoPath)
    /\ thread_budget = MaxThreads
    /\ \E paths \in PathLists :
       \E perm \in Perms({paths[i] : i \in 1..Len(paths)}) :
          args = [fn |-> "output_file_path", paths |-> paths, perm |-> perm]
    /\ result = Unused

\* The window has cached the mix of args.paths; both orderings are then
\* looked up.
OutputFilePath ==
    /\ result.fn = "none"
    /\ LET d == [Display EXCEPT
                    !.temp_file_paths = IF Len(args.paths) >= 2
                                        THEN CacheAdd(@, output_file_path(args.paths))
                                        ELSE @]
       IN  result' = [fn |-> "output_file_path",
                      out |-> output_file_path(args.paths),
                      out_perm |-> output_file_path(args.perm),
                      has |-> has_temp_mix_file(d, args.paths),
                      has_perm |-> has_temp_mix_file(d, args.perm),
                      kind |-> TempFileKind(d, args.paths),
                      kind_perm |-> TempFileKind(d, args.perm)]
    /\ UNCHANGED <<xvars, args>>

SpecPath == PathInit /\ [][OutputFilePath]_vars

----------------------------------------------------------------------------
(* remix.create_isolated_tracks_from_audio_file *)

\* Optional[...] arguments: <<>> is None, <<v>> is the value v.
IsNone(x) == x = <<>>
TruthyStr(x) == x # <<>> /\ x[1] # ""
TruthyInt(x) == x # <<>> /\ x[1] # 0
TruthyBool(x) == x # <<>> /\ x[1]

MP3_FORMAT == "mp3"
WAV_FORMAT == "wav"
FLAC_FORMAT == "flac"
DEFAULT_ISOLATED_TRACK_FORMAT == WAV_FORMAT
MP3_PRESET_MIN == 2
MP3_PRESET_MAX == 7
DEFAULT_WAV_DEPTH == "int16"
ALLOWED_WAV_BIT_DEPTHS == {"int16", "int24", "float32"}
ALLOWED_CLIP_MODES == {"clamp", "rescale"}
DEFAULT_SPLIT_INPUT_INTO_SEGMENTS == TRUE

OutputFormat(a) ==
    IF TruthyStr(a.output_format) THEN a.output_format[1] ELSE DEFAULT_ISOLATED_TRACK_FORMAT

SplitIntoSegments(a) ==
    IF IsNone(a.split_into_segments) THEN DEFAULT_SPLIT_INPUT_INTO_SEGMENTS
    ELSE a.split_into_segments[1]

\* The first ValueError raised by the checks that open the function, in the
\* order of the code, or "none".
ValidationError(a) ==
    LET output_format == OutputFormat(a)
    IN  IF output_format \notin ISOLATED_TRACK_FORMATS THEN "Unsupported output format"
        ELSE IF output_format # MP3_FORMAT /\ (TruthyInt(a.mp3_preset) \/ TruthyInt(a.mp3_bitrate_kbps))
        THEN "MP3 preset and bitrate may only be provided when output format is MP3"
        ELSE IF output_format # WAV_FORMAT /\ TruthyStr(a.wav_bit_depth)
        THEN "WAV bit depth may only be provided when output format is WAV"
        ELSE IF TruthyStr(a.clip_mode) /\ a.clip_mode[1] \notin ALLOWED_CLIP_MODES
        THEN "Unsupported clip mode"
        ELSE IF ~IsNone(a.cpu_parallelism) /\ a.has_gpu_acceleration
                /\ ~TruthyBool(a.disable_gpu_acceleration)
        THEN "CPU parallelism may only be provided when GPU acceleration is disabled"
        ELSE IF ~IsNone(a.cpu_parallelism) /\ a.cpu_parallelism[1] <= 0
        THEN "CPU parallelism must be a positive integer"
        ELSE IF TruthyInt(a.mp3_preset)
                /\ (a.mp3_preset[1] < MP3_PRESET_MIN \/ a.mp3_preset[1] > MP3_PRESET_MAX)
        THEN "MP3 preset must be between MIN and MAX"
        ELSE IF TruthyInt(a.mp3_bitrate_kbps) /\ a.mp3_bitrate_kbps[1] <= 0
        THEN "MP3 bitrate must be a positive integer"
        ELSE IF TruthyStr(a.wav_bit_depth) /\ a.wav_bit_depth[1] \notin ALLOWED_WAV_BIT_DEPTHS
        THEN "Unsupported WAV bit depth"
        ELSE IF SplitIntoSegments(a)
        THEN IF TruthyInt(a.segment_length_seconds) /\ a.segment_length_seconds[1] <= 0
             THEN "Segment length must be a positive integer"
             ELSE IF TruthyInt(a.segment_overlap_percent) /\ a.segment_overlap_percent[1] < 0
             THEN "Segment overlap must be a nonnegative integer"
             ELSE IF TruthyInt(a.random_shift_count) /\ a.random_shift_count[1] < 0
             THEN "Random shift count must be a nonnegative integer"
             ELSE "none"
        ELSE IF TruthyInt(a.segment_length_seconds)
             THEN "Segment length may only be provided when input is split into segments"
             ELSE IF TruthyInt(a.segment_overlap_percent)
             THEN "Segment overlap may only be provided when input is split into segments"
             ELSE IF TruthyInt(a.random_shift_count)
             THEN "Random shift count may only be provided when input is split into segments"
             ELSE "none"

\* The option flags passed to demucs.separate.main after the input file and
\* --out (the option values are left out).
DemucsArgs(a) ==
    LET output_format == OutputFormat(a)
        Opt(c, flags) == IF c THEN flags ELSE <<>>
    IN  Opt(TruthyStr(a.clip_mode), <<"--clip-mode">>)
        \o (IF output_format = FLAC_FORMAT THEN <<"--flac">>
            ELSE IF output_format = MP3_FORMAT
            THEN <<"--mp3", "--mp3-preset", "--mp3-bitrate">>
            ELSE IF TruthyStr(a.wav_bit_depth) /\ a.wav_bit_depth[1] # DEFAULT_WAV_DEPTH
            THEN <<"--" \o a.wav_bit_depth[1]>>
            ELSE <<>>)
        \o (IF SplitIntoSegments(a)
            THEN Opt(TruthyInt(a.segment_length_seconds), <<"--segment">>)
                 \o Opt(TruthyInt(a.segment_overlap_percent), <<"--overlap">>)
                 \o Opt(TruthyInt(a.random_shift_count), <<"--shifts">>)
            ELSE <<"--no-split">>)
        \o Opt(TruthyBool(a.disable_gpu_acceleration), <<"--device">>)
        \o Opt(TruthyInt(a.cpu_parallelism)
               /\ (~a.has_gpu_acceleration \/ TruthyBool(a.disable_gpu_acceleration)),
               <<"--jobs">>)

Separate_M(a, error, dir_exists) ==
    IF error # "none"
    THEN [fn |-> "create_isolated_tracks_from_audio_file", raised |-> error,
          makedirs |-> ~dir_exists /\ ~SplitIntoSegments(a), demucs |-> FALSE,
          demucs_args |-> <<>>]
    ELSE [fn |-> "create_isolated_tracks_from_audio_file", raised |-> "none",
          makedirs |-> ~dir_exists, demucs |-> TRUE, demucs_args |-> DemucsArgs(a)]

\* The run up to and including the call of demucs.separate.main: what was
\* raised, whether os.makedirs created the output directory, whether demucs
\* was invoked and with which flags.
Separate(a, error, dir_exists) ==
    IF error # "none"
    THEN [fn |-> "create_isolated_tracks_from_audio_file", raised |-> error,
          makedirs |-> FALSE, demucs |-> FALSE, demucs_args |-> <<>>]
    ELSE [fn |-> "create_isolated_tracks_from_audio_file", raised |-> "none",
          makedirs |-> ~dir_exists, demucs |-> TRUE, demucs_args |-> DemucsArgs(a)]

create_isolated_tracks_from_audio_file(a) ==
    Separate(a, ValidationError(a), a.output_dir_exists)

RemixArgs ==
    [fn : {"create_isolated_tracks_from_audio_file"},
     output_dir_exists : BOOLEAN,
     output_format : {<<>>, <<"mp3">>, <<"ogg">>},
     clip_mode : {<<>>, <<"bad">>},
     has_gpu_acceleration : BOOLEAN,
     disable_gpu_acceleration : {<<>>, <<TRUE>>},
     cpu_parallelism : {<<>>, <<0>>, <<2>>},
     mp3_preset : {<<>>, <<5>>, <<8>>},
     mp3_bitrate_kbps : {<<>>, <<-1>>},
     wav_bit_depth : {<<>>, <<"int24">>, <<"int8">>},
     split_into_segments : {<<>>, <<FALSE>>},
     segment_length_seconds : {<<>>, <<-1>>, <<10>>},
     segment_overlap_percent : {<<>>, <<-1>>},
     random_shift_count : {<<>>, <<-1>>}]

RemixInit ==
    /\ WindowInit(PlainDir, NoPath)
    /\ thread_budget = MaxThreads
    /\ args \in RemixArgs
    /\ result = Unused

CreateIsolatedTracks ==
    /\ result.fn = "none"
    /\ result' = create_isolated_tracks_from_audio_file(args)
    /\ UNCHANGED <<xvars, args>>

SpecRemix == RemixInit /\ [][CreateIsolatedTracks]_vars

----------------------------------------------------------------------------
(* __main__.main *)

\* os.listdir of the directories the command line is tried on.
Listings ==
    {{},
     {<<"bass", ".", "wav">>, <<"song", ".", "txt">>, <<".", "wav">>},
     {<<"bass", ".", "wav">>, <<"drums", ".", "WAV">>},
     {<<"bass", ".", "flac">>, <<"drums", ".", "mp3">>, <<"song", ".", "txt">>},
     {<<"bass", ".", "wav">>, <<"drums", ".", "wav">>, <<"vocals", ".", "wav">>}}

\* Values of the positional argument: the empty string, a path that does
\* not exist, a file, a directory with its listing.
PathValues ==
    {[kind |-> k, listing |-> {}] : k \in {"empty", "missing", "file"}}
    \cup {[kind |-> "dir", listing |-> l] : l \in Listings}

exists(p) == p.kind \in {"file", "dir"}
isdir(p) == p.kind = "dir"

\* argparse: error |-> TRUE is parser.error(), which exits with status 2.
parse_args(argv) ==
    [error |-> argv.guitar /\ argv.piano,
     music_file_or_track_dir |-> argv.path, output |-> argv.output,
     mp3 |-> argv.mp3, guitar |-> argv.guitar, piano |-> argv.piano]

Exit(status) ==
    [fn |-> "main", exit |-> status, launched |-> 0, song_path |-> <<>>,
     input_dir_path |-> <<>>, output_dir_path |-> <<>>,
     output_mp3_format |-> FALSE, other_track_name |-> <<>>, mode |-> "none"]

\* UnmixerUI(song_path=..., input_dir_path=..., ...).run(), after which main
\* returns and the interpreter exits with status 0.
UnmixerUI(song_path, input_dir_path, output_dir_path, output_mp3_format, other_track_name) ==
    [fn |-> "main", exit |-> 0, launched |-> 1, song_path |-> song_path,
     input_dir_path |-> input_dir_path, output_dir_path |-> output_dir_path,
     output_mp3_format |-> output_mp3_format, other_track_name |-> other_track_name,
     mode |-> IF input_dir_path # <<>> THEN "explore" ELSE "import"]

main_M(argv) ==
    LET config == parse_args(argv)
        given == config.music_file_or_track_dir # <<>>
                 /\ config.music_file_or_track_dir[1].kind # "empty"
        path == IF given THEN config.music_file_or_track_dir ELSE <<>>
        tracks_found == IF given
                        THEN {f \in path[1].listing : is_isolated_track(f)}
                        ELSE {}
    IN  IF config.error THEN Exit(2)
        ELSE IF given /\ ~exists(path[1]) THEN Exit(1)
        ELSE IF given /\ isdir(path[1]) /\ Cardinality(tracks_found) < 2 THEN Exit(1)
        ELSE IF TruthyStr(config.output) /\ path # <<>> /\ isdir(path[1]) THEN Exit(1)
        ELSE UnmixerUI(IF given /\ ~isdir(path[1]) THEN path ELSE <<>>,
                       IF given /\ isdir(path[1]) THEN path ELSE <<>>,
                       IF TruthyStr(config.output) THEN config.output ELSE <<>>,
                       config.mp3,
                       IF config.guitar THEN <<"guitar">>
                       ELSE IF config.piano THEN <<"piano">> ELSE <<>>)

\* path is falsy for no argument and for the empty string.
main(argv) ==
    LET config == parse_args(argv)
        given == config.music_file_or_track_dir # <<>>
                 /\ config.music_file_or_track_dir[1].kind # "empty"
        path == IF given THEN config.music_file_or_track_dir ELSE <<>>
        tracks_found == IF given
                        THEN {f \in path[1].listing : is_isolated_track(f)}
                        ELSE {}
    IN  IF config.error THEN Exit(2)
        ELSE IF given /\ ~exists(path[1]) THEN Exit(1)
        ELSE IF given /\ isdir(path[1]) /\ Cardinality(tracks_found) < 2 THEN Exit(1)
        ELSE IF TruthyStr(config.output) /\ path # <<>> /\ isdir(path[1]) THEN Exit(1)
        ELSE IF config.mp3 /\ path # <<>> /\ isdir(path[1]) THEN Exit(1)
        ELSE UnmixerUI(IF given /\ ~isdir(path[1]) THEN path ELSE <<>>,
                       IF given /\ isdir(path[1]) THEN path ELSE <<>>,
                       IF TruthyStr(config.output) THEN config.output ELSE <<>>,
                       config.mp3,
                       IF config.guitar THEN <<"guitar">>
                       ELSE IF config.piano THEN <<"piano">> ELSE <<>>)

MainArgs ==
    [fn : {"main"},
     path : {<<>>} \cup {<<p>> : p \in PathValues},
     output : {<<>>, <<"">>, <<"out">>},
     mp3 : BOOLEAN, guitar : BOOLEAN, piano : BOOLEAN]

MainInit ==
    /\ WindowInit(PlainDir, NoPath)
    /\ thread_budget = MaxThreads
    /\ args \in MainArgs
    /\ result = Unused

Main ==
    /\ result.fn = "none"
    /\ result' = main(args)
    /\ UNCHANGED <<xvars, args>>

SpecMain == MainInit /\ [][Main]_vars

----------------------------------------------------------------------------
(* Properties of the track explorer *)

AllTracks == [i \in 1..N |-> i]

\* The file update_media_player_for_current_selected_tracks is meant to
\* leave in file_path_for_selected_tracks for the current selection.
PlaybackFile ==
    LET paths == selected_track_paths(Display)
    IN  TempFileValue(TempFileKind(Display, paths), paths)

\* C1: once temp_file_path has returned a mix for a selection, the selection
\* stays cached: has_temp_mix_file is True for it, a further call returns the
\* same path without running merge_audio_files and leaves the cache alone,
\* and every call actually made for such a selection was a cache hit.
C1_CacheReuse ==
    /\ \A sel \in mixes_returned :
          /\ has_temp_mix_file(Display, PathsOf(sel))
          /\ LET r == temp_file_path(Display, sel, "ui", FALSE)
             IN  /\ r.last.returned
                 /\ r.last.path = output_file_path(PathsOf(sel))
                 /\ r.last.merged = "none"
                 /\ r.temp_file_paths = temp_file_paths
    /\ (last.called /\ last.known) =>
          /\ last.kind = "cached"
          /\ last.merged = "none"
          /\ last.path = output_file_path(PathsOf(last.sel))

\* A later call for a selection that had already been mixed hit the cache.
C1_Witness == last.called /\ last.known /\ last.kind = "cached" /\ last.returned

\* C2: merge_audio_files never runs on the UI thread.
C2_MixOnlyOnWorker == last.merged # "ui"

\* C3: when no worker is outstanding, file_path_for_selected_tracks is the
\* playback file of the current selection and a playing player plays it.
C3_PlaybackFileCurrent ==
    (~aborted /\ workers = <<>> /\ file_path_for_selected_tracks # NoPath) =>
        /\ file_path_for_selected_tracks = PlaybackFile
        /\ (player.exists /\ player.isPlaying) =>
              player.source = file_path_for_selected_tracks

\* C5: at most one track is soloed, soloed_track is exactly the soloed
\* track, and the selection is the soloed track if there is one and the
\* unmuted tracks otherwise.
C5_SelectionAndSolo ==
    LET S == {t \in 1..N : soloed[t]}
    IN  /\ Cardinality(S) <= 1
        /\ \A t \in 1..N : (soloed_track = t) <=> soloed[t]
        /\ selected_tracks(Display) =
              IF S # {} THEN <<CHOOSE t \in S : TRUE>>
              ELSE SelectSeq(AllTracks, LAMBDA i : ~muted[i])

\* A track is soloed while another one is muted.
C5_Witness == soloed_track # 0 /\ \E t \in 1..N : muted[t] /\ t # soloed_track

\* C6: the export button is enabled exactly when at least 2 and fewer than
\* all tracks are selected.
C6_ExportEnabled ==
    LET count == Len(selected_tracks(Display))
    IN  export_enabled <=> (2 <= count /\ count < N)

\* The export button has been enabled by muting one track.
C6_Witness == export_enabled /\ soloed_track = 0 /\ \E t \in 1..N : muted[t]

\* C7: export_selected_tracks does nothing for fewer than 2 or all tracks,
\* creates no mix and copies nothing when the dialog is cancelled, and
\* otherwise copies the mix of exactly the selected tracks to a path that
\* ends with the mix file's extension.
C7_ExportContract ==
    last.export # "none" =>
        /\ (Len(last.sel) < 2 \/ Len(last.sel) = N) =>
              (last.export = "nothing" /\ ~last.dialog)
        /\ last.export \in {"nothing", "cancelled"} =>
              (last.merged = "none" /\ last.dst = <<>>)
        /\ last.export = "copied" =>
              /\ last.mixed = PathsOf(last.sel)
              /\ EndsWith(last.dst, splitext(last.path.name)[2])

\* C8: for one track temp_file_path returns the track's own file and for
\* all tracks of a window with a source file the source file; in both cases
\* has_temp_mix_file is True, nothing is mixed and the cache is unchanged.
C8_NoMixForSingleOrSource ==
    /\ \A t \in 1..N :
          /\ has_temp_mix_file(Display, PathsOf(<<t>>))
          /\ LET r == temp_file_path(Display, <<t>>, "ui", FALSE)
             IN  /\ r.last.returned
                 /\ r.last.path = TrackPath(t)
                 /\ r.last.merged = "none"
                 /\ r.temp_file_paths = temp_file_paths
                 /\ r.content = content
    /\ source_file_path # NoPath =>
          /\ has_temp_mix_file(Display, PathsOf(AllTracks))
          /\ LET r == temp_file_path(Display, AllTracks, "ui", FALSE)
             IN  /\ r.last.returned
                 /\ r.last.path = source_file_path
                 /\ r.last.merged = "none"
                 /\ r.temp_file_paths = temp_file_paths
                 /\ r.content = content
    /\ (last.called /\ last.kind \in {"single", "source"}) =>
          (last.returned /\ last.merged = "none")

\* All tracks were re-selected in a window with a source file after a mix
\* had been cached.
C8_Witness ==
    /\ last.called /\ last.kind = "source" /\ last.path = source_file_path
    /\ temp_file_paths # {}

----------------------------------------------------------------------------
(* Properties of the pure functions *)

\* C4: output_file_path, and with it has_temp_mix_file and the branch
\* temp_file_path takes, is the same for a list of track paths and for any
\* permutation of it.
C4_OrderIndependent ==
    result.fn = "output_file_path" =>
        /\ result.out = result.out_perm
        /\ result.has = result.has_perm
        /\ result.kind = result.kind_perm

\* C9: the function raises ValueError exactly for the invalid option
\* combinations, and when it raises the output directory has not been
\* created and demucs has not been invoked; otherwise the directory is
\* created if missing and demucs is invoked.
C9_ValidateBeforeSideEffects ==
    result.fn = "create_isolated_tracks_from_audio_file" =>
        LET a == args
            output_format == OutputFormat(a)
            split == SplitIntoSegments(a)
            invalid ==
                \/ output_format \notin ISOLATED_TRACK_FORMATS
                \/ output_format # MP3_FORMAT
                   /\ (TruthyInt(a.mp3_preset) \/ TruthyInt(a.mp3_bitrate_kbps))
                \/ output_format # WAV_FORMAT /\ TruthyStr(a.wav_bit_depth)
                \/ TruthyStr(a.clip_mode) /\ a.clip_mode[1] \notin ALLOWED_CLIP_MODES
                \/ ~IsNone(a.cpu_parallelism)
                   /\ (a.cpu_parallelism[1] <= 0
                       \/ (a.has_gpu_acceleration /\ ~TruthyBool(a.disable_gpu_acceleration)))
                \/ TruthyInt(a.mp3_preset)
                   /\ a.mp3_preset[1] \notin MP3_PRESET_MIN..MP3_PRESET_MAX
                \/ TruthyInt(a.mp3_bitrate_kbps) /\ a.mp3_bitrate_kbps[1] <= 0
                \/ TruthyStr(a.wav_bit_depth) /\ a.wav_bit_depth[1] \notin ALLOWED_WAV_BIT_DEPTHS
                \/ ~split /\ (TruthyInt(a.segment_length_seconds)
                              \/ TruthyInt(a.segment_overlap_percent)
                              \/ TruthyInt(a.random_shift_count))
                \/ split /\ (\/ TruthyInt(a.segment_length_seconds)
                                /\ a.segment_length_seconds[1] <= 0
                             \/ TruthyInt(a.segment_overlap_percent)
                                /\ a.segment_overlap_percent[1] < 0
                             \/ TruthyInt(a.random_shift_count)
                                /\ a.random_shift_count[1] < 0)
        IN  /\ invalid <=> result.raised # "none"
            /\ result.raised # "none" => (~result.makedirs /\ ~result.demucs)
            /\ result.raised = "none" =>
                  (result.demucs /\ (result.makedirs <=> ~a.output_dir_exists))

\* The last check of the function raised while the output directory was
\* missing.
C9_Witness ==
    /\ result.fn = "create_isolated_tracks_from_audio_file"
    /\ result.raised = "Random shift count may only be provided when input is split into segments"
    /\ ~args.output_dir_exists

\* What the command line is given, empty values counting as not given.
PathGiven == args.path # <<>> /\ args.path[1].kind # "empty"
IsDirectory == PathGiven /\ args.path[1].kind = "dir"
MustFail ==
    \/ PathGiven /\ args.path[1].kind = "missing"
    \/ IsDirectory
       /\ Cardinality({f \in args.path[1].listing : is_isolated_track(f)}) < 2
    \/ IsDirectory /\ (TruthyStr(args.output) \/ args.mp3)

\* C10 as stated: status 1 and no UI for a missing path, a directory with
\* fewer than 2 isolated tracks, or --output/--mp3 with a directory; in
\* every other case exactly one UI, in explore mode for a directory and
\* import mode otherwise.
C10_ExitOrLaunch ==
    result.fn = "main" =>
        IF MustFail THEN result.exit = 1 /\ result.launched = 0
        ELSE /\ result.launched = 1
             /\ result.mode = IF IsDirectory THEN "explore" ELSE "import"

\* C10 amended: the above holds when the arguments parse; with both
\* --guitar and --piano the parser exits with status 2 and no UI is
\* launched.
C10_ExitOrLaunchWhenParsed ==
    result.fn = "main" =>
        IF args.guitar /\ args.piano THEN result.exit = 2 /\ result.launched = 0
        ELSE IF MustFail THEN result.exit = 1 /\ result.launched = 0
        ELSE /\ result.launched = 1
             /\ result.exit = 0
             /\ result.mode = IF IsDirectory THEN "explore" ELSE "import"

\* --mp3 with a directory of enough tracks was refused with status 1.
C10_Witness ==
    /\ result.fn = "main" /\ result.exit = 1
    /\ IsDirectory /\ args.mp3 /\ ~TruthyStr(args.output) /\ ~args.guitar
    /\ Cardinality({f \in args.path[1].listing : is_isolated_track(f)}) >= 2

----------------------------------------------------------------------------
(* Properties of muting, failures and worker threads *)

\* C12: no sequence of mute and solo toggles ends in
\* ValueError('No input files provided!'); when every track is muted the
\* handler completes and leaves the play and export buttons disabled.
C12_NoEmptySelectionError ==
    /\ raised # "No input files provided!"
    /\ selected_tracks(Display) = <<>> => (~aborted /\ ~play_enabled /\ ~export_enabled)

\* C11: no creation of a mix is started for an output file that has
\* already been created or is being created by a worker.
C11_CreateOnce == ~last.dup

\* C13: the file temp_file_path returns for a selection of two or more
\* tracks, and the file export copies, was mixed from exactly the tracks of
\* that selection, also in a directory with tracks of mixed extensions.
C13_NoSharedCacheEntry ==
    /\ (last.returned /\ last.kind \in {"cached", "create"}) =>
          content[last.path] = PathsOf(last.sel)
    /\ last.export = "copied" => last.mixed = PathsOf(last.sel)

\* The thread of the worker at index w of workers has been started and the
\* worker's run() has not returned.
InRun(w) == workers[w].st \in {"started", "mixing"}

\* The creation of the mix of sel has failed in a worker.
FailedFor(sel) ==
    \E w \in 1..Len(workers) :
        workers[w].st \in {"failed", "reported"} /\ workers[w].sel = sel

\* C14: the step in which mix creation fails in a worker, and the step that
\* reports it, leave the cache, file_path_for_selected_tracks and the player
\* as they are; and a later mute toggle or play that requests the selection
\* of the failed mix starts a worker to create it again.
C14_FailureHandling ==
    [][/\ (\E w \in 1..Len(workers) :
              /\ workers[w].st \in {"mixing", "failed"}
              /\ Len(workers') = Len(workers)
              /\ workers'[w].st \in {"failed", "reported"}
              /\ workers'[w].st # workers[w].st)
          => /\ temp_file_paths' = temp_file_paths
             /\ file_path_for_selected_tracks' = file_path_for_selected_tracks
             /\ player' = player
       /\ (last'.requested # <<>> /\ FailedFor(last'.requested))
          => (~aborted' /\ nthreads' = nthreads + 1)
      ]_vars

\* C15: a worker thread whose run() has returned and whose signal has been
\* delivered to the UI thread has been told to quit and has finished.
C15_WorkerThreadsStop ==
    \A w \in 1..Len(workers) : workers[w].st # "reported"

\* C16: at most one worker thread is started with its worker's run() not
\* yet returned.
C16_OneWorker == Cardinality({w \in 1..Len(workers) : InRun(w)}) <= 1

\* C17: when the player is replaced during playback the new player starts
\* playing at the position the previous one had reached and the previous
\* one is scheduled to stop; and once no worker and no stop is pending while
\* playback is on, the player plays the file of the current selection.
C17_SwitchDuringPlayback ==
    [][/\ (player.exists /\ player.isPlaying /\ ~aborted'
           /\ player'.source # player.source)
          => /\ player'.isPlaying
             /\ player'.position = player.position
             /\ stopping' = stopping + 1
       /\ (~aborted' /\ workers' = <<>> /\ stopping' = 0 /\ playing' /\ player'.exists)
          => (player'.isPlaying /\ player'.source = PlaybackFile')
      ]_vars

\* C18: when a paused playback starts playing again, it plays from the
\* position it was paused at, or that restart or the playhead set since.
C18_ResumeFromPausedPosition ==
    [][(/\ resume_position # -1
        /\ ~player.isPlaying
        /\ player'.isPlaying)
          => player'.position = resume_position
      ]_vars

====
